---------------------------- MODULE Spec2Model ----------------------------
(***************************************************************************)
(* A model of github-apt-repos: the distribution/architecture resolver of  *)
(* repo.py (a regular expression built from a package's control fields and *)
(* matched against the file's base name), the grouping of `*.deb` files    *)
(* into per-(distribution, architecture) directories by hard links, and    *)
(* the build / sign / publish pipeline of main().                          *)
(*                                                                         *)
(* Strings are sequences of one-character strings, so that the regular     *)
(* expression can be matched character by character.                       *)
(***************************************************************************)
EXTENDS Naturals, Sequences, FiniteSets, TLC

VARIABLES
    r_pc,        \* resolver harness: "call" before the call, "ret" after it
    r_deb,       \* resolver harness: the `*.deb` file handed to the resolver
    r_out,       \* resolver harness: what get_deb_dist_arch returned
    fs,          \* the filesystem: normalised path -> [kind, ino]
    data,        \* the content of each inode
    fs0,         \* the filesystem before the first run (history)
    apt_dir,     \* the apt-root handed to group_debs
    g_pc,        \* group_debs: "idle", "loop", "returned" or "raised"
    g_todo,      \* group_debs: the globbed paths the loop has yet to visit
    dist_arch_dirs, \* group_debs: the set it builds and returns
    g_exc,       \* group_debs: the exception it raised ("none" if none)
    g_run,       \* the number of calls of group_debs so far
    g_prev,      \* how the previous call of group_debs ended (history)
    m_pc,        \* main: "off", "start", "grouping", "make", "release",
                 \*       "finally" or "done"
    m_cfg,       \* main: [publish, sign, repo, tmp]: is there an apt_repo,
                 \*       a gpg_user_id, a repo to download from; is deb_dir
                 \*       not given but made by mkdtemp
    m_assets,    \* GitHub: the `*.deb` assets of the latest release of repo
    m_exc,       \* main: the exception that ended the run ("none" if none)
    m_order,     \* main: the order in which dist_arch_dirs is iterated
    m_i,         \* main: the index in m_order of the directory at hand
    m_signed,    \* main: directories with both signatures made (history)
    m_signfail,  \* main: directories the signer gave no fingerprint for
    m_released,  \* main: directories whose release was got or created
    m_made,      \* main: directories make_apt_repo returned for (history)
    releases,    \* GitHub: tag -> (asset name -> content)
    releases0,   \* GitHub: the releases before the run (history)
    p_pc,        \* release_apt_repo: "off", "call", "written", "loop",
                 \*                   "upload", "returned" or "raised"
    p_dir,       \* release_apt_repo: dist_arch_dir
    p_prefix,    \* release_apt_repo: tag_prefix (None if not given)
    p_assets,    \* release_apt_repo: the names of `assets`, as listed once
    p_todo,      \* release_apt_repo: the listed names yet to be visited
    p_name,      \* release_apt_repo: asset_name, the name at hand
    p_created,   \* release_apt_repo: create_release was called (history)
    p_exc,       \* release_apt_repo: the exception raised ("none" if none)
    d_pc,        \* download_release_debs: "off", "idle", "loop", "returned"
                 \*                        or "raised"
    d_args,      \* download_release_debs: [tag, prerelease]
    d_repo,      \* GitHub: deb_repo.releases(), each [tag_name, assets]
    d_latest,    \* GitHub: the index of deb_repo.latest_release(), 0 if none
    d_release,   \* download_release_debs: the index of `release`, 0 if unbound
    d_todo,      \* download_release_debs: the assets yet to be visited
    d_fetched,   \* the names urlretrieve was called for in this call (history)
    d_ret,       \* download_release_debs: the pair it returned
    d_exc,       \* download_release_debs: the exception raised
    d_run,       \* the number of calls of download_release_debs so far
    d_prev,      \* how the previous call ended (history)
    c_proc,      \* two concurrent runs of group_debs: for each process its
                 \* position and the locals of group_debs
    c_overlap,   \* a process took a step while the other was at work (history)
    q_pc,        \* quote_dotted: "off", "call", "while" or "returned"
    q_py,        \* quote_dotted: the Python the module was imported by
    q_orig,      \* quote_dotted: the argument of the call
    q_dotted,    \* quote_dotted: `dotted`
    q_result,    \* quote_dotted: `result`
    q_iter,      \* quote_dotted: the turns of the while loop so far (history)
    q_first      \* what the first call returned; None during it (history)

rvars == <<r_pc, r_deb, r_out>>

gvars == <<fs, data, fs0, apt_dir, g_pc, g_todo, dist_arch_dirs, g_exc,
           g_run, g_prev>>

mvars == <<m_pc, m_cfg, m_assets, m_exc, m_order, m_i, m_signed, m_signfail,
           m_released, m_made, releases, releases0>>

pvars == <<p_pc, p_dir, p_prefix, p_assets, p_todo, p_name, p_created, p_exc>>

\* The variables of the harnesses that main, group_debs and the resolver
\* leave alone.
dvars == <<d_pc, d_args, d_repo, d_latest, d_release, d_todo, d_fetched,
           d_ret, d_exc, d_run, d_prev>>

cvars == <<c_proc, c_overlap>>

qvars == <<q_pc, q_py, q_orig, q_dotted, q_result, q_iter, q_first>>

xvars == <<pvars, dvars, cvars, qvars>>

vars == <<r_pc, r_deb, r_out, fs, data, fs0, apt_dir, g_pc, g_todo,
          dist_arch_dirs, g_exc, g_run, g_prev, m_pc, m_cfg, m_assets, m_exc,
          m_order,
          m_i, m_signed, m_signfail, m_released, m_made, releases,
          releases0, p_pc, p_dir, p_prefix, p_assets, p_todo, p_name,
          p_created, p_exc, d_pc, d_args, d_repo, d_latest, d_release,
          d_todo, d_fetched, d_ret, d_exc, d_run, d_prev, c_proc,
          c_overlap, q_pc, q_py, q_orig, q_dotted, q_result, q_iter,
          q_first>>

----------------------------------------------------------------------------
(* Bounds and input alphabets.                                             *)

\* Longest package name and version string drawn for the resolver.
MaxFieldLen == 2

\* Most `*.deb` files in the source directory.
MaxDebs == 3

\* Most `*.deb` files in the source directory of a run of main.
MaxMainDebs == 2

\* Most calls of group_debs in a row over the same directories.
MaxRuns == 2

\* Characters of a package name or version: an alphanumeric of each kind and
\* the two characters Debian allows there that are regex metacharacters.
FieldChars == {"a", "1", ".", "+"}

AlnumChars == {"a", "1"}

\* Python's None; no string of the model equals it (its only "character" is
\* four letters long).
None == <<"None">>

DotDeb == <<".", "d", "e", "b">>

\* The state of the variables of the release_apt_repo harness where it
\* plays no part.
PubOff ==
    /\ p_pc = "off"
    /\ p_dir = <<>>
    /\ p_prefix = None
    /\ p_assets = {}
    /\ p_todo = {}
    /\ p_name = None
    /\ p_created = FALSE
    /\ p_exc = "none"

\* The state of the variables of the download_release_debs harness where it
\* plays no part.
DlOff ==
    /\ d_pc = "off"
    /\ d_args = [tag |-> None, prerelease |-> FALSE]
    /\ d_repo = <<>>
    /\ d_latest = 0
    /\ d_release = 0
    /\ d_todo = {}
    /\ d_fetched = {}
    /\ d_ret = [tag |-> None, assets |-> {}]
    /\ d_exc = "none"
    /\ d_run = 0
    /\ d_prev = "off"

\* The state of the variables of the harness of concurrent runs where it
\* plays no part.
RaceOff ==
    /\ c_proc = <<>>
    /\ c_overlap = FALSE

\* The state of the variables of the quote_dotted harness where it plays
\* no part.
QuoteOff ==
    /\ q_pc = "off"
    /\ q_py = "py3"
    /\ q_orig = <<>>
    /\ q_dotted = <<>>
    /\ q_result = <<>>
    /\ q_iter = 0
    /\ q_first = None

XOff == PubOff /\ DlOff /\ RaceOff /\ QuoteOff

----------------------------------------------------------------------------
(* Sequences helpers.                                                      *)

SeqsUpTo(S, n) == UNION {[1..k -> S] : k \in 1..n}

RECURSIVE Concat(_)
Concat(ss) == IF ss = <<>> THEN <<>> ELSE Head(ss) \o Concat(Tail(ss))

\* Index of the last "." of name, 0 when there is none.
LastDot(name) ==
    LET ds == {i \in 1..Len(name) : name[i] = "."}
    IN IF ds = {} THEN 0 ELSE CHOOSE i \in ds : \A j \in ds : j <= i

\* os.path.splitext(name)[0]: the name up to its last dot; leading dots are
\* not an extension separator.
SplitExtRoot(name) ==
    LET k == LastDot(name)
    IN IF k = 0 \/ (\A j \in 1..k : name[j] = ".") THEN name
       ELSE SubSeq(name, 1, k - 1)

----------------------------------------------------------------------------
(* The regular expression DEB_BASENAME_RE, instantiated by str.format.     *)

\* One regex item: a literal character or `.`, possibly repeated by `+`.
Lit(c) == [ch |-> c, any |-> FALSE, plus |-> FALSE]

\* What re.compile makes of a control field substituted verbatim: `.` is
\* "any character", `+` repeats the item before it, the rest are literals.
\* Defined for fields that start with an alphanumeric and hold no `++`
\* (a leading `+` or a `++` is an re.error or a possessive repeat, by
\* Python version).
RECURSIVE CompileFrom(_, _, _)
CompileFrom(field, i, acc) ==
    IF i > Len(field) THEN acc
    ELSE IF field[i] = "." THEN
        CompileFrom(field, i + 1,
                    Append(acc, [ch |-> ".", any |-> TRUE, plus |-> FALSE]))
    ELSE IF field[i] = "+" /\ acc # <<>> THEN
        CompileFrom(field, i + 1,
                    [acc EXCEPT ![Len(acc)].plus = TRUE])
    ELSE CompileFrom(field, i + 1, Append(acc, Lit(field[i])))

Compile(field) == CompileFrom(field, 1, <<>>)

ItemMatches(it, c) == it.any \/ it.ch = c

\* Length of the longest run of characters from position i that item it
\* matches.
RECURSIVE RunLen(_, _, _)
RunLen(it, s, i) ==
    IF i <= Len(s) /\ ItemMatches(it, s[i]) THEN 1 + RunLen(it, s, i + 1)
    ELSE 0

\* The positions at which a match of pat that starts at position i of s can
\* end (the index of the next character), in the order the backtracking
\* matcher tries them: a `+` is greedy, longest repetition first.
RECURSIVE MatchEnds(_, _, _), PlusEnds(_, _, _, _)
MatchEnds(pat, s, i) ==
    IF pat = <<>> THEN <<i>>
    ELSE LET it == Head(pat) IN
         IF it.plus THEN PlusEnds(Tail(pat), s, i, RunLen(it, s, i))
         ELSE IF i <= Len(s) /\ ItemMatches(it, s[i])
              THEN MatchEnds(Tail(pat), s, i + 1)
              ELSE <<>>

PlusEnds(rest, s, i, k) ==
    IF k = 0 THEN <<>>
    ELSE MatchEnds(rest, s, i + k) \o PlusEnds(rest, s, i, k - 1)

\* `_{version}_{arch}`: the part of the pattern after the group.
TailPattern(version, arch) ==
    <<Lit("_")>> \o Compile(version) \o <<Lit("_")>> \o Compile(arch)

\* re.match is anchored at the start only: the tail matches at position i
\* when some match of it starts there, whatever follows.
TailMatchesAt(version, arch, s, i) ==
    MatchEnds(TailPattern(version, arch), s, i) # <<>>

SepChars == {"-", "_", "."}

\* The first alternative of the group at position e: `[-_\.]` then the greedy
\* `(?P<dist>.+)`, longest first.  The set of lengths of dist that let the
\* rest of the pattern match.
DistLens(version, arch, s, e) ==
    IF e <= Len(s) /\ s[e] \in SepChars
    THEN {d \in 1..(Len(s) - e) : TailMatchesAt(version, arch, s, e + 1 + d)}
    ELSE {}

\* What the group yields when the package part ended before position e:
\* <<TRUE, group(2)>> for the first successful path, <<FALSE, None>> when
\* neither alternative leads to a match.
GroupAt(version, arch, s, e) ==
    LET ds == DistLens(version, arch, s, e) IN
    IF ds # {} THEN
        LET d == CHOOSE x \in ds : \A y \in ds : y <= x
        IN <<TRUE, SubSeq(s, e + 1, e + d)>>
    ELSE IF TailMatchesAt(version, arch, s, e) THEN <<TRUE, None>>
    ELSE <<FALSE, None>>

\* re.match(DEB_BASENAME_RE.format(...), s): the first successful path over
\* the ends of the package part, in backtracking order.
RECURSIVE FirstMatch(_, _, _, _)
FirstMatch(ends, version, arch, s) ==
    IF ends = <<>> THEN <<FALSE, None>>
    ELSE LET g == GroupAt(version, arch, s, Head(ends)) IN
         IF g[1] THEN g ELSE FirstMatch(Tail(ends), version, arch, s)

ReMatch(package, version, arch, s) ==
    FirstMatch(MatchEnds(Compile(package), s, 1), version, arch, s)

\* What a call yields: the exception it raised ("none" when it returned) and
\* the pair it returned.
Returned(dist, arch) == [exc |-> "none", dist |-> dist, arch |-> arch]
Raised(e) == [exc |-> e, dist |-> None, arch |-> None]

\* A faulty variant of get_deb_dist_arch: group(2) taken of the match without the
\* test for None, so that a base name the pattern does not match raises.
get_deb_dist_arch_raises(deb) ==
    IF ~deb.readable THEN Raised("DebPackageError")
    ELSE LET m == ReMatch(deb.package, deb.version, deb.arch,
                          SplitExtRoot(deb.name))
         IN IF ~m[1] THEN Raised("AttributeError")
            ELSE Returned(m[2], deb.arch)

\* A faulty variant of get_deb_dist_arch: a base name the pattern does not match is
\* given a distribution of its own instead of None.
get_deb_dist_arch_unknown(deb) ==
    IF ~deb.readable THEN Raised("DebPackageError")
    ELSE LET m == ReMatch(deb.package, deb.version, deb.arch,
                          SplitExtRoot(deb.name))
         IN IF ~m[1] THEN Returned(<<"u">>, deb.arch)
            ELSE Returned(m[2], deb.arch)

\* get_deb_dist_arch(deb).  A `*.deb` file is its base name and the three
\* control fields DebPackage reads from it; DebPackage raises on a file it
\* cannot read.  A base name the pattern does not match gets dist = None.
get_deb_dist_arch(deb) ==
    IF ~deb.readable THEN Raised("DebPackageError")
    ELSE LET m == ReMatch(deb.package, deb.version, deb.arch,
                          SplitExtRoot(deb.name))
         IN IF ~m[1] THEN Returned(None, deb.arch)
            ELSE Returned(m[2], deb.arch)

----------------------------------------------------------------------------
(* Paths and the filesystem.                                               *)

\* A path is a sequence of components, relative to the working directory;
\* os.path.join of components that hold no "/" appends them.
DebDirName == <<"deb_dir">>
AptDirName == <<"apt_dir">>
DebDir == <<DebDirName>>
AptDir == <<AptDirName>>

Dot == <<".">>
DotDot == <<".", ".">>

\* What the kernel resolves a path to: "." stays in place, ".." goes to the
\* parent (the working directory is its own parent here).
RECURSIVE NormFrom(_, _, _)
NormFrom(path, i, acc) ==
    IF i > Len(path) THEN acc
    ELSE IF path[i] = Dot THEN NormFrom(path, i + 1, acc)
    ELSE IF path[i] = DotDot THEN
        NormFrom(path, i + 1,
                 IF acc = <<>> THEN acc ELSE SubSeq(acc, 1, Len(acc) - 1))
    ELSE NormFrom(path, i + 1, Append(acc, path[i]))

Norm(path) == NormFrom(path, 1, <<>>)

Prefix(path, k) == SubSeq(path, 1, k)

DirEntry == [kind |-> "dir", ino |-> 0]
FileEntry(i) == [kind |-> "file", ino |-> i]

IsDir(f, path) == Norm(path) \in DOMAIN f /\ f[Norm(path)].kind = "dir"

\* A faulty variant of PathExists: the test looks at a path that is never there.
PathExists_missing(f, path) == FALSE

\* os.path.exists(path): every directory on the way is one, and the entry
\* is there.
PathExists(f, path) ==
    /\ \A k \in 1..(Len(path) - 1) : IsDir(f, Prefix(path, k))
    /\ Norm(path) \in DOMAIN f

EEXIST == 17
ENOTDIR == 20

\* os.makedirs(path): creates the missing directories from the left; ends
\* with errno 17 when the last one exists (as a directory or not), and with
\* errno 20 when a component on the way is not a directory.
\* A faulty variant of MakeDirsFrom: an entry in the way of the last directory is
\* replaced by the directory.
RECURSIVE MakeDirsFrom_replace(_, _, _)
MakeDirsFrom_replace(f, path, k) ==
    IF k > Len(path) THEN [fs |-> f, errno |-> 0]
    ELSE LET t == Norm(Prefix(path, k)) IN
         IF t \in DOMAIN f /\ f[t].kind = "dir" THEN
             IF k = Len(path) THEN [fs |-> f, errno |-> EEXIST]
             ELSE MakeDirsFrom_replace(f, path, k + 1)
         ELSE MakeDirsFrom_replace(
                  [p \in DOMAIN f \cup {t} |-> IF p = t THEN DirEntry ELSE f[p]],
                  path, k + 1)

RECURSIVE MakeDirsFrom(_, _, _)
MakeDirsFrom(f, path, k) ==
    IF k > Len(path) THEN [fs |-> f, errno |-> 0]
    ELSE LET t == Norm(Prefix(path, k)) IN
         IF t \in DOMAIN f THEN
             IF k = Len(path) THEN [fs |-> f, errno |-> EEXIST]
             ELSE IF f[t].kind = "dir" THEN MakeDirsFrom(f, path, k + 1)
             ELSE [fs |-> f, errno |-> ENOTDIR]
         ELSE MakeDirsFrom(f @@ (t :> DirEntry), path, k + 1)

makedirs(f, path) == MakeDirsFrom(f, path, 1)

\* os.link(src, dst): a second name for the inode of src; fails when the
\* directory of dst is none (errno 20) or dst exists (errno 17).
link(f, src, dst) ==
    IF ~IsDir(f, Prefix(dst, Len(dst) - 1)) THEN [fs |-> f, errno |-> ENOTDIR]
    ELSE IF Norm(dst) \in DOMAIN f THEN [fs |-> f, errno |-> EEXIST]
    ELSE [fs |-> f @@ (Norm(dst) :> f[Norm(src)]), errno |-> 0]

EndsWith(s, t) ==
    Len(s) >= Len(t) /\ SubSeq(s, Len(s) - Len(t) + 1, Len(s)) = t

\* glob.glob(os.path.join(dir, '*.deb')): the entries of dir whose name ends
\* in ".deb" and does not start with a dot.
glob_debs(f, dir) ==
    {p \in DOMAIN f : /\ Len(p) = Len(Norm(dir)) + 1
                      /\ Prefix(p, Len(p) - 1) = Norm(dir)
                      /\ EndsWith(p[Len(p)], DotDeb)
                      /\ p[Len(p)][1] # "."}

----------------------------------------------------------------------------
(* The `*.deb` files of the model.                                         *)

Ctl(base, p, v, a) ==
    [base |-> base, package |-> p, version |-> v, arch |-> a, readable |-> TRUE]

\* The files the source directory is filled from; the index of a file is
\* also its inode number.  Every base name here follows the convention
\* `package[-dist]_version_arch` but the eighth and the ninth: an unreadable
\* file, and a name the pattern does not match (a `+` in the version).  The
\* last one has a dash in its architecture (as kfreebsd-amd64 has).
\* A file that is no Debian package: DebPackage finds no control fields.
NotADeb ==
    [base |-> <<"u">>, package |-> <<>>, version |-> <<>>, arch |-> <<>>,
     readable |-> FALSE]

Catalogue == <<
    Ctl(<<"a", "_", "1", "_", "x">>, <<"a">>, <<"1">>, <<"x">>),
    Ctl(<<"b", "_", "1", "_", "x">>, <<"b">>, <<"1">>, <<"x">>),
    Ctl(<<"a", "-", "f", "_", "1", "_", "x">>, <<"a">>, <<"1">>, <<"x">>),
    Ctl(<<"a", "-", ".", "_", "1", "_", "x">>, <<"a">>, <<"1">>, <<"x">>),
    Ctl(<<"a", "_", "1", "_", "y">>, <<"a">>, <<"1">>, <<"y">>),
    Ctl(<<"a", "-", "x", "_", "1", "_", "y">>, <<"a">>, <<"1">>, <<"y">>),
    Ctl(<<"a", "-", ".", ".", "_", "1", "_", "x">>, <<"a">>, <<"1">>, <<"x">>),
    NotADeb,
    Ctl(<<"c", "_", "1", "+", "_", "x">>, <<"c">>, <<"1", "+">>, <<"x">>),
    Ctl(<<"a", "_", "1", "_", "f", "-", "x">>, <<"a">>, <<"1">>, <<"f", "-", "x">>) >>

CatIds == 1..Len(Catalogue)

\* The sets of at most max files the source directory is filled with.  The
\* file with the dashed architecture comes alone, or with files of the
\* architecture x: one without a distribution, one of the distribution f.
DashedId == Len(Catalogue)
DebSets(max) ==
    {ids \in SUBSET CatIds :
        /\ Cardinality(ids) <= max
        /\ DashedId \in ids => ids \subseteq {1, 3, DashedId}}

\* Inodes of files that are in the apt-root before the first run.
StaleIno == 100
BlockerIno == 101

\* The content the inode i holds before the first run.
InitialContent(i) == IF i \in CatIds THEN Catalogue[i].base ELSE <<"stale">>

\* DebPackage(path): the control fields are read from the file's content,
\* the name is the path's last component.
DebAt(f, path) ==
    LET i == f[Norm(path)].ino
        c == IF i \in CatIds THEN Catalogue[i] ELSE NotADeb
    IN [name |-> path[Len(path)], package |-> c.package, version |-> c.version,
        arch |-> c.arch, readable |-> c.readable /\ f[Norm(path)].kind = "file"]

----------------------------------------------------------------------------
(* group_debs.                                                             *)

\* A faulty variant of DistArchDir: the distribution left out of the path.
DistArchDir_flat(apt, dist, arch) == apt \o <<arch>>

\* The directory of a group key under the apt-root.
DistArchDir(apt, dist, arch) ==
    IF dist = None THEN apt \o <<arch>> ELSE apt \o <<dist, arch>>

\* One turn of the loop of group_debs on the globbed path deb.
GroupStep ==
    /\ g_pc = "loop"
    /\ \E deb \in g_todo :
        LET r == get_deb_dist_arch(DebAt(fs, deb))
            dist_arch_dir == DistArchDir(apt_dir, r.dist, r.arch)
            md == makedirs(fs, dist_arch_dir)
            deb_link == dist_arch_dir \o <<deb[Len(deb)]>>
            ln == link(md.fs, deb, deb_link)
        IN IF r.exc # "none" THEN
               /\ g_pc' = "raised"
               /\ g_exc' = r.exc
               /\ UNCHANGED <<fs, dist_arch_dirs, g_todo>>
           ELSE IF md.errno \notin {0, EEXIST} THEN
               /\ g_pc' = "raised"
               /\ g_exc' = "OSError"
               /\ fs' = md.fs
               /\ UNCHANGED <<dist_arch_dirs, g_todo>>
           ELSE IF PathExists(md.fs, deb_link) THEN
               /\ fs' = md.fs
               /\ dist_arch_dirs' = dist_arch_dirs \cup {dist_arch_dir}
               /\ g_todo' = g_todo \ {deb}
               /\ UNCHANGED <<g_pc, g_exc>>
           ELSE IF ln.errno # 0 THEN
               /\ g_pc' = "raised"
               /\ g_exc' = "OSError"
               /\ fs' = md.fs
               /\ dist_arch_dirs' = dist_arch_dirs \cup {dist_arch_dir}
               /\ UNCHANGED g_todo
           ELSE
               /\ fs' = ln.fs
               /\ dist_arch_dirs' = dist_arch_dirs \cup {dist_arch_dir}
               /\ g_todo' = g_todo \ {deb}
               /\ UNCHANGED <<g_pc, g_exc>>
    /\ UNCHANGED <<data, fs0, apt_dir, g_run, g_prev>>
    /\ UNCHANGED rvars
    /\ UNCHANGED xvars
    /\ UNCHANGED mvars

\* A faulty variant of GroupReturn: the set is returned also when it is empty.
GroupReturn_always ==
    /\ g_pc = "loop"
    /\ g_todo = {}
    /\ g_pc' = "returned"
    /\ g_exc' = "none"
    /\ UNCHANGED <<fs, data, fs0, apt_dir, g_todo, dist_arch_dirs, g_run, g_prev>>
    /\ UNCHANGED rvars
    /\ UNCHANGED xvars
    /\ UNCHANGED mvars

\* The end of group_debs: no group at all is a ValueError, else the set is
\* returned.
GroupReturn ==
    /\ g_pc = "loop"
    /\ g_todo = {}
    /\ IF dist_arch_dirs = {}
       THEN g_pc' = "raised" /\ g_exc' = "ValueError"
       ELSE g_pc' = "returned" /\ g_exc' = "none"
    /\ UNCHANGED <<fs, data, fs0, apt_dir, g_todo, dist_arch_dirs, g_run, g_prev>>
    /\ UNCHANGED rvars
    /\ UNCHANGED xvars
    /\ UNCHANGED mvars

\* The entry of group_debs(deb_dir, apt_dir): the set starts empty and the
\* glob is evaluated.
GroupEnter ==
    /\ g_run' = g_run + 1
    /\ g_prev' = [pc |-> g_pc, dirs |-> dist_arch_dirs]
    /\ g_pc' = "loop"
    /\ g_exc' = "none"
    /\ dist_arch_dirs' = {}
    /\ g_todo' = glob_debs(fs, DebDir)
    /\ UNCHANGED <<fs, data, fs0, apt_dir>>
    /\ UNCHANGED rvars
    /\ UNCHANGED xvars

\* A call of group_debs on its own; a later call is over the same two
\* directories.
GroupCall ==
    /\ m_pc = "off"
    /\ g_pc \in {"idle", "returned", "raised"}
    /\ g_run < MaxRuns
    /\ GroupEnter
    /\ UNCHANGED mvars

\* The state of the group_debs variables where group_debs plays no part.
GroupOff ==
    /\ fs = (<<>> :> DirEntry)
    /\ data = <<>>
    /\ fs0 = fs
    /\ apt_dir = AptDir
    /\ g_pc = "off"
    /\ g_todo = {}
    /\ dist_arch_dirs = {}
    /\ g_exc = "none"
    /\ g_run = 0
    /\ g_prev = [pc |-> "off", dirs |-> {}]

\* main without options.
NoOptions == [publish |-> FALSE, sign |-> FALSE, repo |-> FALSE, tmp |-> FALSE]

\* The state of the variables of main where main plays no part.
MainOff ==
    /\ m_pc = "off"
    /\ m_cfg = NoOptions
    /\ m_assets = {}
    /\ m_exc = "none"
    /\ m_order = <<>>
    /\ m_i = 0
    /\ m_signed = {}
    /\ m_signfail = {}
    /\ m_released = {}
    /\ m_made = {}
    /\ releases = <<>>
    /\ releases0 = <<>>

\* The source directory filled with the files ids.
SourceFs(ids) ==
    [p \in {<<>>, DebDir} \cup {DebDir \o <<Catalogue[i].base \o DotDeb>> : i \in ids} |->
        IF Len(p) < 2 THEN DirEntry
        ELSE FileEntry(CHOOSE i \in ids : Catalogue[i].base \o DotDeb = p[2])]

\* What may be under the apt-root before the first run: nothing; a group
\* directory that holds another file under the name of a source file; a
\* regular file where a group directory goes; a regular file where a
\* distribution directory goes.
ArchX == <<"x">>
DistF == <<"f">>

PreFs(apt) == {
    <<>>,
    (apt :> DirEntry) @@ (apt \o <<ArchX>> :> DirEntry) @@
        (apt \o <<ArchX, Catalogue[1].base \o DotDeb>> :> FileEntry(StaleIno)),
    (apt :> DirEntry) @@ (apt \o <<ArchX>> :> FileEntry(BlockerIno)),
    (apt :> DirEntry) @@ (apt \o <<DistF>> :> FileEntry(BlockerIno)) }

\* The state of the resolver harness where it plays no part.
ResolverOff ==
    /\ r_pc = "off"
    /\ r_deb = Catalogue[8]
    /\ r_out = Raised("pending")

GInit ==
    /\ ResolverOff
    /\ XOff
    /\ apt_dir \in {AptDir, DebDir}
    /\ \E ids \in DebSets(MaxDebs), pre \in PreFs(apt_dir) :
        fs = pre @@ SourceFs(ids)
    /\ data = [i \in {fs[p].ino : p \in DOMAIN fs} \ {0} |-> InitialContent(i)]
    /\ fs0 = fs
    /\ g_pc = "idle"
    /\ g_todo = {}
    /\ dist_arch_dirs = {}
    /\ g_exc = "none"
    /\ g_run = 0
    /\ g_prev = [pc |-> "idle", dirs |-> {}]
    /\ MainOff

GNext == GroupCall \/ GroupStep \/ GroupReturn

SpecGroup == GInit /\ [][GNext]_vars

----------------------------------------------------------------------------
(* main: group, build and sign every group directory, then publish each.   *)

PackagesName == <<"Packages">>
ReleaseName == <<"Release">>
InReleaseName == <<"InRelease">>
ReleaseGpgName == <<"Release.gpg">>
PubKeyName == <<"pub.key">>
SourcesListName == <<"sources.list">>
AptAddRepoName == <<"apt-add-repo">>

\* The number of a new inode.
NewIno(d) ==
    LET used == DOMAIN d \cup {BlockerIno}
    IN 1 + CHOOSE n \in used : \A m \in used : m <= n

\* open(path, 'w') and a write of content: a new file, or the old inode with
\* the new content.  The pair of the filesystem and the inode contents.
WriteFile(fd, path, content) ==
    LET t == Norm(path) IN
    IF t \in DOMAIN fd.fs
    THEN [fs |-> fd.fs, data |-> [fd.data EXCEPT ![fd.fs[t].ino] = content]]
    ELSE [fs |-> fd.fs @@ (t :> FileEntry(NewIno(fd.data))),
          data |-> fd.data @@ (NewIno(fd.data) :> content)]

\* os.listdir(dir): the names of the entries of dir.
listdir(f, dir) ==
    {p[Len(p)] : p \in {q \in DOMAIN f : /\ Len(q) = Len(Norm(dir)) + 1
                                         /\ Prefix(q, Len(q) - 1) = Norm(dir)}}

\* A faulty variant of sign_failed: the fingerprint is not looked at.
sign_failed_never(fingerprint) == FALSE

\* `if not signed.fingerprint`: the signer gave no fingerprint.
sign_failed(fingerprint) == ~fingerprint

\* The length of the longest common prefix of two paths.
RECURSIVE CommonLen(_, _, _)
CommonLen(a, b, k) ==
    IF k < Len(a) /\ k < Len(b) /\ a[k + 1] = b[k + 1]
    THEN CommonLen(a, b, k + 1) ELSE k

\* os.path.relpath(path, start), as a sequence of components.
relpath(path, start) ==
    LET d == Norm(path)
        s == Norm(start)
        c == CommonLen(d, s, 0)
        r == [i \in 1..(Len(s) - c) |-> DotDot] \o SubSeq(d, c + 1, Len(d))
    IN IF r = <<>> THEN <<Dot>> ELSE r

\* 'apt-' + dist_arch.replace('/', '-'), as a string.
RECURSIVE JoinDash(_)
JoinDash(comps) ==
    IF comps = <<>> THEN <<>> ELSE <<"-">> \o Head(comps) \o JoinDash(Tail(comps))

ReleaseTag(dist_arch_dir, apt) ==
    <<"a", "p", "t">> \o JoinDash(relpath(dist_arch_dir, apt))

Perms(S) == {s \in [1..Cardinality(S) -> S] : \A i, j \in 1..Cardinality(S) :
                                                  s[i] = s[j] => i = j}

\* What the steps of main before group_debs leave alone.
MainFrame ==
    /\ UNCHANGED <<m_cfg, m_assets, m_exc, m_order, m_i, m_signed, m_signfail,
                   m_released, m_made, releases, releases0>>
    /\ UNCHANGED <<fs0, apt_dir, g_pc, g_todo, dist_arch_dirs, g_exc, g_run,
                   g_prev>>
    /\ UNCHANGED rvars
    /\ UNCHANGED xvars

\* The working directories are set up: without --deb-dir, deb_dir is a new
\* directory made by tempfile.mkdtemp (the options are drawn in Init, and
\* so is apt_dir, which is --apt-dir or deb_dir).
MainSetUp ==
    /\ m_pc = "start"
    /\ fs' = IF m_cfg.tmp THEN fs @@ (DebDir :> DirEntry) ELSE fs
    /\ m_pc' = "download"
    /\ UNCHANGED data
    /\ MainFrame

\* urlretrieve of the asset with index i into deb_dir, unless a file of its
\* name is there.
Fetch(fd, i) ==
    LET dest == DebDir \o <<Catalogue[i].base \o DotDeb>> IN
    IF PathExists(fd.fs, dest) THEN fd
    ELSE [fs |-> fd.fs @@ (dest :> FileEntry(i)),
          data |-> fd.data @@ (i :> InitialContent(i))]

RECURSIVE FetchAll(_, _)
FetchAll(fd, ids) ==
    IF ids = {} THEN fd
    ELSE LET i == CHOOSE x \in ids : TRUE
         IN FetchAll(Fetch(fd, i), ids \ {i})

\* `if repo is not None: download_release_debs(repo, deb_dir=deb_dir)`: every
\* `*.deb` asset of the latest release is fetched, or the call raises (there
\* is no release, or a fetch fails) after it fetched some of them.
MainDownload ==
    /\ m_pc = "download"
    /\ IF ~m_cfg.repo THEN
           /\ m_pc' = "ready"
           /\ UNCHANGED <<fs, data, m_exc>>
       ELSE \E got \in SUBSET m_assets, ok \in BOOLEAN :
           LET fd == FetchAll([fs |-> fs, data |-> data], got) IN
           /\ ok => got = m_assets
           /\ fs' = fd.fs
           /\ data' = fd.data
           /\ m_pc' = IF ok THEN "ready" ELSE "finally"
           /\ m_exc' = IF ok THEN m_exc
                       ELSE IF got = {} THEN "NotFoundError" ELSE "URLError"
    /\ UNCHANGED <<m_cfg, m_assets, m_order, m_i, m_signed, m_signfail,
                   m_released, m_made, releases, releases0>>
    /\ UNCHANGED <<fs0, apt_dir, g_pc, g_todo, dist_arch_dirs, g_exc, g_run,
                   g_prev>>
    /\ UNCHANGED rvars
    /\ UNCHANGED xvars

\* The call of group_debs.
MainGroup ==
    /\ m_pc = "ready"
    /\ g_pc = "idle"
    /\ GroupEnter
    /\ m_pc' = "grouping"
    /\ UNCHANGED <<m_cfg, m_assets, m_exc, m_order, m_i, m_signed, m_signfail,
                   m_released, releases, releases0,
                   m_made>>

\* group_debs raised: the exception leaves main through the finally block.
MainGroupRaised ==
    /\ m_pc = "grouping"
    /\ g_pc = "raised"
    /\ m_pc' = "finally"
    /\ m_exc' = g_exc
    /\ UNCHANGED <<m_cfg, m_assets, m_order, m_i, m_signed, m_signfail, m_released,
                   releases, releases0,
                   m_made>>
    /\ UNCHANGED gvars
    /\ UNCHANGED rvars
    /\ UNCHANGED xvars

\* group_debs returned: the public key is written to the apt-root unless it
\* is there, and the loop over the group directories begins, in the order
\* the set is iterated in.
MainPubKey ==
    /\ m_pc = "grouping"
    /\ g_pc = "returned"
    /\ LET fd == IF m_cfg.sign /\ ~PathExists(fs, apt_dir \o <<PubKeyName>>)
                 THEN WriteFile([fs |-> fs, data |-> data],
                                apt_dir \o <<PubKeyName>>, PubKeyName)
                 ELSE [fs |-> fs, data |-> data]
       IN fs' = fd.fs /\ data' = fd.data
    /\ m_order' \in Perms(dist_arch_dirs)
    /\ m_i' = 1
    /\ m_pc' = "make"
    /\ UNCHANGED <<m_cfg, m_assets, m_exc, m_signed, m_signfail, m_released, releases,
                   releases0,
                   m_made>>
    /\ UNCHANGED <<fs0, apt_dir, g_pc, g_todo, dist_arch_dirs, g_exc, g_run, g_prev>>
    /\ UNCHANGED rvars
    /\ UNCHANGED xvars

\* What make_apt_repo may meet: both commands and both signatures succeed,
\* a command exits non-zero, or the signer gives no fingerprint.
MakeOutcomes ==
    {"ok", "scanpackages_failed", "ftparchive_failed"} \cup
    (IF m_cfg.sign THEN {"no_inrelease_fingerprint", "no_release_gpg_fingerprint"}
     ELSE {})

\* make_apt_repo(gpg, gpg_user_id, gpg_pub_key_src, dist_arch_dir) for the
\* directory at hand.
MakeAptRepo ==
    /\ m_pc = "make"
    /\ m_i <= Len(m_order)
    /\ \E out \in MakeOutcomes :
        LET d == m_order[m_i]
            fd0 == [fs |-> fs, data |-> data]
            fd1 == WriteFile(fd0, d \o <<PackagesName>>, PackagesName)
            fd2 == WriteFile(fd1, d \o <<ReleaseName>>, ReleaseName)
            fd3 == WriteFile(fd2, d \o <<InReleaseName>>, InReleaseName)
            fd4 == WriteFile(fd3, d \o <<ReleaseGpgName>>, ReleaseGpgName)
            fds == IF m_cfg.sign THEN fd4 ELSE fd2
            key == link(fds.fs, apt_dir \o <<PubKeyName>>, d \o <<PubKeyName>>)
            fd5 == IF m_cfg.sign /\ ~PathExists(fds.fs, d \o <<PubKeyName>>)
                   THEN [fs |-> key.fs, data |-> fds.data] ELSE fds
        IN IF out = "scanpackages_failed" THEN
               /\ fs' = fd1.fs /\ data' = fd1.data
               /\ m_exc' = "CalledProcessError" /\ m_pc' = "finally"
               /\ UNCHANGED <<m_i, m_signed, m_signfail, m_made>>
           ELSE IF out = "ftparchive_failed" THEN
               /\ fs' = fd2.fs /\ data' = fd2.data
               /\ m_exc' = "CalledProcessError" /\ m_pc' = "finally"
               /\ UNCHANGED <<m_i, m_signed, m_signfail, m_made>>
           ELSE IF m_cfg.sign /\ sign_failed(out # "no_inrelease_fingerprint") THEN
               /\ fs' = fd2.fs /\ data' = fd2.data
               /\ m_exc' = "ValueError" /\ m_pc' = "finally"
               /\ m_signfail' = m_signfail \cup {d}
               /\ UNCHANGED <<m_i, m_signed, m_made>>
           ELSE IF m_cfg.sign /\ sign_failed(out # "no_release_gpg_fingerprint") THEN
               /\ fs' = fd3.fs /\ data' = fd3.data
               /\ m_exc' = "ValueError" /\ m_pc' = "finally"
               /\ m_signfail' = m_signfail \cup {d}
               /\ UNCHANGED <<m_i, m_signed, m_made>>
           ELSE
               /\ fs' = fd5.fs /\ data' = fd5.data
               /\ m_signed' = IF out = "ok" /\ m_cfg.sign
                              THEN m_signed \cup {d} ELSE m_signed
               /\ m_signfail' = IF out = "ok" THEN m_signfail
                                ELSE m_signfail \cup {d}
               /\ m_made' = m_made \cup {d}
               /\ m_i' = m_i + 1
               /\ UNCHANGED <<m_exc, m_pc>>
    /\ UNCHANGED <<m_cfg, m_assets, m_order, m_released, releases, releases0>>
    /\ UNCHANGED <<fs0, apt_dir, g_pc, g_todo, dist_arch_dirs, g_exc, g_run, g_prev>>
    /\ UNCHANGED rvars
    /\ UNCHANGED xvars

\* A faulty variant of MainMade: the second loop begins as soon as one
\* directory is built.
MainMade_early ==
    /\ m_pc = "make"
    /\ m_i > 1
    /\ m_pc' = IF m_cfg.publish THEN "release" ELSE "finally"
    /\ m_i' = 1
    /\ UNCHANGED <<m_cfg, m_assets, m_exc, m_order, m_signed, m_signfail, m_released,
                   releases, releases0, m_made>>
    /\ UNCHANGED gvars
    /\ UNCHANGED rvars
    /\ UNCHANGED xvars

\* The first loop is over: the second one begins if there is an apt_repo.
MainMade ==
    /\ m_pc = "make"
    /\ m_i > Len(m_order)
    /\ m_pc' = IF m_cfg.publish THEN "release" ELSE "finally"
    /\ m_i' = 1
    /\ UNCHANGED <<m_cfg, m_assets, m_exc, m_order, m_signed, m_signfail, m_released,
                   releases, releases0,
                   m_made>>
    /\ UNCHANGED gvars
    /\ UNCHANGED rvars
    /\ UNCHANGED xvars

\* The release at tag with the files names of directory d uploaded, each in
\* the place of the asset of its name.
Uploaded(rel, tag, f, dta, d, names) ==
    LET old == IF tag \in DOMAIN rel THEN rel[tag] ELSE <<>>
        new == [n \in DOMAIN old \cup names |->
                   IF n \in names THEN dta[f[Norm(d \o <<n>>)].ino] ELSE old[n]]
    IN [t \in DOMAIN rel \cup {tag} |-> IF t = tag THEN new ELSE rel[t]]

\* release_apt_repo(apt_repo, apt_dir, dist_arch_dir, ...) for the directory
\* at hand: the sources list and the install script are written, the release
\* at the tag is got or created, and every entry of the directory is
\* uploaded; open() of an entry that is a directory raises, after the
\* uploads of the entries listed before it.
ReleaseAptRepo ==
    /\ m_pc = "release"
    /\ m_i <= Len(m_order)
    /\ LET d == m_order[m_i]
           fd1 == WriteFile([fs |-> fs, data |-> data],
                            d \o <<SourcesListName>>, SourcesListName)
           fd2 == WriteFile(fd1, d \o <<AptAddRepoName>>, AptAddRepoName)
           tag == ReleaseTag(d, apt_dir)
           names == listdir(fd2.fs, d)
           files == {n \in names : fd2.fs[Norm(d \o <<n>>)].kind = "file"}
       IN /\ fs' = fd2.fs
          /\ data' = fd2.data
          /\ m_released' = m_released \cup {d}
          /\ IF files = names THEN
                 /\ releases' = Uploaded(releases, tag, fd2.fs, fd2.data, d, names)
                 /\ m_i' = m_i + 1
                 /\ UNCHANGED <<m_pc, m_exc>>
             ELSE
                 /\ \E done \in SUBSET files :
                      releases' = Uploaded(releases, tag, fd2.fs, fd2.data, d, done)
                 /\ m_exc' = "IsADirectoryError"
                 /\ m_pc' = "finally"
                 /\ UNCHANGED m_i
    /\ UNCHANGED <<m_cfg, m_assets, m_order, m_signed, m_signfail, releases0,
                   m_made>>
    /\ UNCHANGED <<fs0, apt_dir, g_pc, g_todo, dist_arch_dirs, g_exc, g_run, g_prev>>
    /\ UNCHANGED rvars
    /\ UNCHANGED xvars

\* The second loop is over.
MainReleased ==
    /\ m_pc = "release"
    /\ m_i > Len(m_order)
    /\ m_pc' = "finally"
    /\ UNCHANGED <<m_cfg, m_assets, m_exc, m_order, m_i, m_signed, m_signfail, m_released,
                   releases, releases0,
                   m_made>>
    /\ UNCHANGED gvars
    /\ UNCHANGED rvars
    /\ UNCHANGED xvars

\* The path q is dir or below it.
IsUnder(q, dir) == Len(q) >= Len(dir) /\ Prefix(q, Len(dir)) = dir

\* shutil.rmtree(dir, ignore_errors=True): dir and all below it are gone,
\* and so is the content of an inode that no name is left for.
rmtree(fd, dir) ==
    LET keep == {q \in DOMAIN fd.fs : ~IsUnder(q, Norm(dir))}
        inos == {fd.fs[q].ino : q \in keep}
    IN [fs |-> [q \in keep |-> fd.fs[q]],
        data |-> [i \in DOMAIN fd.data \cap inos |-> fd.data[i]]]

\* A faulty variant of CleanUp: the directory is left behind.
CleanUp_never(tmp, fd) == fd

\* `if args.deb_dir is None: shutil.rmtree(deb_dir, ignore_errors=True)`.
CleanUp(tmp, fd) == IF tmp THEN rmtree(fd, DebDir) ELSE fd

\* The finally block of main, and its end.
MainFinally ==
    /\ m_pc = "finally"
    /\ m_pc' = "done"
    /\ LET fd == CleanUp(m_cfg.tmp, [fs |-> fs, data |-> data])
       IN fs' = fd.fs /\ data' = fd.data
    /\ UNCHANGED <<m_cfg, m_assets, m_exc, m_order, m_i, m_signed, m_signfail,
                   m_released, m_made, releases, releases0>>
    /\ UNCHANGED <<fs0, apt_dir, g_pc, g_todo, dist_arch_dirs, g_exc, g_run,
                   g_prev>>
    /\ UNCHANGED rvars
    /\ UNCHANGED xvars

\* The releases that may be there before the run: none, or the release of
\* the group (None, x) with an asset of an earlier run.
TagX == <<"a", "p", "t", "-", "x">>

PreReleases == {<<>>, (TagX :> (PackagesName :> <<"stale">>))}

\* The options of main: with an apt_repo there is always a gpg_user_id, and
\* the repo to download from is, by default, the apt_repo too.  The runs
\* drawn download into a deb_dir of their own making, or find the files in
\* the deb_dir given.
Configs ==
    {c \in [publish : BOOLEAN, sign : BOOLEAN, repo : BOOLEAN, tmp : BOOLEAN] :
        (c.publish => c.sign) /\ (c.repo => c.publish) /\ (c.repo => c.tmp)}

\* The filesystem before anything is there.
EmptyFs == (<<>> :> DirEntry)

Init ==
    /\ ResolverOff
    /\ XOff
    /\ apt_dir \in {AptDir, DebDir}
    /\ m_cfg \in Configs
    /\ \E ids \in DebSets(MaxMainDebs) :
        /\ m_cfg.tmp /\ ~m_cfg.repo => ids = {}
        /\ m_assets = IF m_cfg.repo THEN ids ELSE {}
        /\ fs = IF m_cfg.tmp THEN EmptyFs ELSE SourceFs(ids)
    /\ data = [i \in {fs[p].ino : p \in DOMAIN fs} \ {0} |-> InitialContent(i)]
    /\ fs0 = fs
    /\ g_pc = "idle"
    /\ g_todo = {}
    /\ dist_arch_dirs = {}
    /\ g_exc = "none"
    /\ g_run = 0
    /\ g_prev = [pc |-> "idle", dirs |-> {}]
    /\ m_pc = "start"
    /\ m_exc = "none"
    /\ m_order = <<>>
    /\ m_i = 0
    /\ m_signed = {}
    /\ m_signfail = {}
    /\ m_released = {}
    /\ m_made = {}
    /\ releases \in PreReleases
    /\ releases0 = releases

Next ==
    \/ MainSetUp
    \/ MainDownload
    \/ MainGroup
    \/ GroupStep
    \/ GroupReturn
    \/ MainGroupRaised
    \/ MainPubKey
    \/ MakeAptRepo
    \/ MainMade
    \/ ReleaseAptRepo
    \/ MainReleased
    \/ MainFinally

Spec == Init /\ [][Next]_vars

----------------------------------------------------------------------------
(* release_apt_repo of github.py on its own, one call of the API a step.   *)

\* Most files in the group directory before the call.
MaxPubFiles == 2

\* The values of --github-release-prefix: not given, or a prefix.
TagPrefixes == {None, <<"v">>}

\* tag_prefix + '-' + dist_arch.replace('/', '-'), where tag_prefix is 'apt'
\* or 'apt-' and the prefix given.
ReleaseTagWith(tag_prefix, dist_arch_dir, apt) ==
    (IF tag_prefix = None THEN <<"a", "p", "t">>
     ELSE <<"a", "p", "t", "-">> \o tag_prefix)
    \o JoinDash(relpath(dist_arch_dir, apt))

\* What a group directory may hold before the call: a package, the indices
\* and the key; and a nested group directory.
DebName == Catalogue[1].base \o DotDeb
PubNames == {DebName, PackagesName, ReleaseName, PubKeyName}
SubDirName == <<"y">>
OldDebName == <<"old.deb">>

\* Every name of names written as a file of directory dir.
RECURSIVE WriteAll(_, _, _)
WriteAll(fd, dir, names) ==
    IF names = {} THEN fd
    ELSE LET n == CHOOSE x \in names : TRUE
         IN WriteAll(WriteFile(fd, dir \o <<n>>, n), dir, names \ {n})

\* The releases of the repository before the call: none; one at the tag
\* with an asset under the name of an index and another asset; one at the
\* tag with an asset under the name of the install script; one at another
\* tag.
PubPreReleases(tag) == {
    <<>>,
    (tag :> ((PackagesName :> <<"stale">>) @@ (OldDebName :> <<"stale">>))),
    (tag :> (AptAddRepoName :> <<"stale">>)),
    (Append(tag, "2") :> (PackagesName :> <<"stale">>)) }

PInit ==
    /\ ResolverOff
    /\ apt_dir = AptDir
    /\ p_dir \in {AptDir \o <<ArchX>>, AptDir \o <<DistF, ArchX>>}
    /\ p_prefix \in TagPrefixes
    /\ \E names \in SUBSET PubNames, subs \in SUBSET {SubDirName} :
         LET dirs == {Prefix(p_dir, k) : k \in 0..Len(p_dir)}
                     \cup {p_dir \o <<s>> : s \in subs}
             fd == WriteAll([fs |-> [d \in dirs |-> DirEntry], data |-> <<>>],
                            p_dir, names)
         IN /\ Cardinality(names) <= MaxPubFiles
            /\ fs = fd.fs
            /\ data = fd.data
    /\ fs0 = fs
    /\ g_pc = "off"
    /\ g_todo = {}
    /\ dist_arch_dirs = {}
    /\ g_exc = "none"
    /\ g_run = 0
    /\ g_prev = [pc |-> "off", dirs |-> {}]
    /\ m_pc = "off"
    /\ m_cfg = NoOptions
    /\ m_assets = {}
    /\ m_exc = "none"
    /\ m_order = <<>>
    /\ m_i = 0
    /\ m_signed = {}
    /\ m_signfail = {}
    /\ m_released = {}
    /\ m_made = {}
    /\ releases \in PubPreReleases(ReleaseTagWith(p_prefix, p_dir, apt_dir))
    /\ releases0 = releases
    /\ DlOff
    /\ RaceOff
    /\ QuoteOff
    /\ p_pc = "call"
    /\ p_assets = {}
    /\ p_todo = {}
    /\ p_name = None
    /\ p_created = FALSE
    /\ p_exc = "none"

\* What the steps of release_apt_repo leave alone.
PubFrame ==
    /\ UNCHANGED <<fs0, apt_dir, g_pc, g_todo, dist_arch_dirs, g_exc, g_run,
                   g_prev>>
    /\ UNCHANGED <<m_pc, m_cfg, m_assets, m_exc, m_order, m_i, m_signed, m_signfail,
                   m_released, m_made, releases0>>
    /\ UNCHANGED <<p_dir, p_prefix>>
    /\ UNCHANGED rvars
    /\ UNCHANGED dvars
    /\ UNCHANGED cvars
    /\ UNCHANGED qvars

\* The sources list and the install script are written to the directory.
PubWrite ==
    /\ p_pc = "call"
    /\ LET fd1 == WriteFile([fs |-> fs, data |-> data],
                            p_dir \o <<SourcesListName>>, SourcesListName)
           fd2 == WriteFile(fd1, p_dir \o <<AptAddRepoName>>, AptAddRepoName)
       IN fs' = fd2.fs /\ data' = fd2.data
    /\ p_pc' = "written"
    /\ UNCHANGED <<releases, p_assets, p_todo, p_name, p_created, p_exc>>
    /\ PubFrame

\* The release at the tag is got, or created when there is none; its assets
\* and the directory are listed.
PubGetOrCreate ==
    /\ p_pc = "written"
    /\ LET tag == ReleaseTagWith(p_prefix, p_dir, apt_dir)
       IN /\ p_created' = (tag \notin DOMAIN releases)
          /\ releases' = IF tag \in DOMAIN releases THEN releases
                         ELSE releases @@ (tag :> <<>>)
          /\ p_assets' = DOMAIN releases'[tag]
    /\ p_todo' = listdir(fs, p_dir)
    /\ p_pc' = "loop"
    /\ UNCHANGED <<fs, data, p_name, p_exc>>
    /\ PubFrame

\* The assets of a release without the one named n.
Without(assets, n) == [a \in DOMAIN assets \ {n} |-> assets[a]]

\* A faulty variant of DeleteAsset: the asset of the same name is kept.
DeleteAsset_keep(rel, tag, listed, n) == rel

\* `asset = assets.get(asset_name)` and, if there is one, asset.delete().
DeleteAsset(rel, tag, listed, n) ==
    IF n \in listed THEN [rel EXCEPT ![tag] = Without(rel[tag], n)] ELSE rel

\* The next name of the listing: the asset of that name, if any, is deleted.
PubDelete ==
    /\ p_pc = "loop"
    /\ \E n \in p_todo :
         /\ p_name' = n
         /\ p_todo' = p_todo \ {n}
         /\ releases' = DeleteAsset(releases,
                                    ReleaseTagWith(p_prefix, p_dir, apt_dir),
                                    p_assets, n)
    /\ p_pc' = "upload"
    /\ UNCHANGED <<fs, data, p_assets, p_created, p_exc>>
    /\ PubFrame

\* open(path) and release.upload_asset(...): open raises on a directory,
\* and GitHub refuses a second asset of a name the release holds.
PubUpload ==
    /\ p_pc = "upload"
    /\ LET tag == ReleaseTagWith(p_prefix, p_dir, apt_dir)
           path == Norm(p_dir \o <<p_name>>)
       IN IF fs[path].kind = "dir" THEN
              /\ p_pc' = "raised"
              /\ p_exc' = "IsADirectoryError"
              /\ UNCHANGED releases
          ELSE IF p_name \in DOMAIN releases[tag] THEN
              /\ p_pc' = "raised"
              /\ p_exc' = "UnprocessableEntity"
              /\ UNCHANGED releases
          ELSE
              /\ p_pc' = "loop"
              /\ releases' = [releases EXCEPT ![tag] =
                                  releases[tag] @@ (p_name :> data[fs[path].ino])]
              /\ UNCHANGED p_exc
    /\ UNCHANGED <<fs, data, p_assets, p_todo, p_name, p_created>>
    /\ PubFrame

\* The listing is exhausted: release_apt_repo returns.
PubReturn ==
    /\ p_pc = "loop"
    /\ p_todo = {}
    /\ p_pc' = "returned"
    /\ UNCHANGED <<fs, data, releases, p_assets, p_todo, p_name, p_created,
                   p_exc>>
    /\ PubFrame

PNext == PubWrite \/ PubGetOrCreate \/ PubDelete \/ PubUpload \/ PubReturn

SpecPublish == PInit /\ [][PNext]_vars

----------------------------------------------------------------------------
(* download_release_debs of github.py on its own.                          *)

\* Most releases in the listing of the repository.
MaxReleases == 2

\* os.path.splitext(name)[1]: the name from its last dot on; leading dots
\* are not an extension separator.
SplitExtExt(name) == SubSeq(name, Len(SplitExtRoot(name)) + 1, Len(name))

\* Asset names: two packages, a text file, a package with an upper-case
\* extension, and a name that is nothing but ".deb".
ADebName == <<"a", ".", "d", "e", "b">>
BDebName == <<"b", ".", "d", "e", "b">>
ATxtName == <<"a", ".", "t", "x", "t">>
AUpperName == <<"a", ".", "D", "E", "B">>

\* The sets of assets a release may hold.
AssetSets == { {}, {ATxtName}, {ADebName}, {ADebName, BDebName, ATxtName},
               {AUpperName, DotDeb} }

\* The tag names of the releases, by their place in the listing.
TagDigits == <<"1", "2", "3", "4", "5">>
TagName(i) == <<"t", TagDigits[i]>>

\* The listings of a repository.
Listings ==
    UNION {{l \in [1..n -> [tag_name : {TagName(i) : i \in 1..n},
                            assets : AssetSets]] :
               \A i \in 1..n : l[i].tag_name = TagName(i)} : n \in 0..MaxReleases}

\* get_deb_assets(release).
get_deb_assets(release) == {a \in release.assets : SplitExtExt(a) = DotDeb}

\* deb_repo.release_from_tag(tag): the index of the release, 0 if none.
release_from_tag(repo, tag) ==
    IF \E i \in 1..Len(repo) : repo[i].tag_name = tag
    THEN CHOOSE i \in 1..Len(repo) : repo[i].tag_name = tag
    ELSE 0

\* A faulty variant of PrereleaseLoop: the loop is not left at the first
\* release with packages.
RECURSIVE PrereleaseLoop_nobreak(_, _, _)
PrereleaseLoop_nobreak(repo, i, bound) ==
    IF i > Len(repo) THEN bound
    ELSE PrereleaseLoop_nobreak(repo, i + 1,
             [release |-> i, assets |-> get_deb_assets(repo[i])])

\* `for release in deb_repo.releases()` from the release at index i on:
\* `release` and `assets` as bound when the loop is left.
RECURSIVE PrereleaseLoop(_, _, _)
PrereleaseLoop(repo, i, bound) ==
    IF i > Len(repo) THEN bound
    ELSE LET assets == get_deb_assets(repo[i]) IN
         IF assets # {} THEN [release |-> i, assets |-> assets]
         ELSE PrereleaseLoop(repo, i + 1, [release |-> i, assets |-> assets])

Selected(exc, release, assets, tag) ==
    [exc |-> exc, release |-> release, assets |-> assets, tag |-> tag]

\* The three branches that bind `release`, `assets` and `tag`, and the test
\* `if not assets`.
SelectRelease(repo, latest, args) ==
    LET s == IF args.tag # None THEN
                 LET i == release_from_tag(repo, args.tag) IN
                 IF i = 0 THEN Selected("NotFoundError", 0, {}, args.tag)
                 ELSE Selected("none", i, get_deb_assets(repo[i]), args.tag)
             ELSE IF args.prerelease THEN
                 LET b == PrereleaseLoop(repo, 1, [release |-> 0, assets |-> {}])
                 IN IF b.release = 0
                    THEN Selected("UnboundLocalError", 0, {}, None)
                    ELSE Selected("none", b.release, b.assets,
                                  repo[b.release].tag_name)
             ELSE IF latest = 0 THEN Selected("NotFoundError", 0, {}, None)
             ELSE Selected("none", latest, get_deb_assets(repo[latest]), None)
    IN IF s.exc = "none" /\ s.assets = {} THEN [s EXCEPT !.exc = "ValueError"]
       ELSE s

\* The state of the variables of group_debs, the filesystem apart, where
\* group_debs plays no part.
GroupVarsOff ==
    /\ g_pc = "off"
    /\ g_todo = {}
    /\ dist_arch_dirs = {}
    /\ g_exc = "none"
    /\ g_run = 0
    /\ g_prev = [pc |-> "off", dirs |-> {}]

\* What deb_dir may hold before the first call: nothing, or a file under
\* the name of an asset.
LocalPre == { {}, {ADebName} }

DInit ==
    /\ ResolverOff
    /\ MainOff
    /\ PubOff
    /\ RaceOff
    /\ QuoteOff
    /\ GroupVarsOff
    /\ apt_dir = AptDir
    /\ \E names \in LocalPre :
         /\ fs = [q \in {<<>>, DebDir} \cup {DebDir \o <<n>> : n \in names} |->
                     IF Len(q) < 2 THEN DirEntry ELSE FileEntry(StaleIno)]
         /\ data = [i \in {StaleIno : n \in names} |-> <<"stale">>]
    /\ fs0 = fs
    /\ d_repo \in Listings
    /\ d_latest \in 0..Len(d_repo)
    /\ d_args \in [tag : {None} \cup {TagName(i) : i \in 1..(MaxReleases + 1)},
                   prerelease : BOOLEAN]
    /\ d_pc = "idle"
    /\ d_release = 0
    /\ d_todo = {}
    /\ d_fetched = {}
    /\ d_ret = [tag |-> None, assets |-> {}]
    /\ d_exc = "none"
    /\ d_run = 0
    /\ d_prev = "idle"

\* What the steps of download_release_debs leave alone.
DlFrame ==
    /\ UNCHANGED <<fs0, apt_dir, g_pc, g_todo, dist_arch_dirs, g_exc, g_run,
                   g_prev>>
    /\ UNCHANGED <<d_args, d_repo, d_latest>>
    /\ UNCHANGED rvars
    /\ UNCHANGED mvars
    /\ UNCHANGED pvars
    /\ UNCHANGED cvars
    /\ UNCHANGED qvars

\* The call up to the loop over the assets: a release is selected, and
\* there is an error if it holds no package.
DlCall ==
    /\ d_pc \in {"idle", "returned", "raised"}
    /\ d_run < MaxRuns
    /\ d_run' = d_run + 1
    /\ d_prev' = d_pc
    /\ LET s == SelectRelease(d_repo, d_latest, d_args)
       IN /\ d_release' = s.release
          /\ d_exc' = s.exc
          /\ d_pc' = IF s.exc = "none" THEN "loop" ELSE "raised"
          /\ d_todo' = s.assets
          /\ d_ret' = [tag |-> s.tag, assets |-> s.assets]
    /\ d_fetched' = {}
    /\ UNCHANGED <<fs, data>>
    /\ DlFrame

\* What urlretrieve may do: fetch the whole asset, fail before it wrote
\* anything, or fail with a part of the asset written.
FetchOutcomes == {"ok", "error", "partial"}

\* One turn of the loop over the assets.
DlFetch ==
    /\ d_pc = "loop"
    /\ \E asset \in d_todo :
         LET dest == DebDir \o <<asset>> IN
         IF PathExists(fs, dest) THEN
             /\ d_todo' = d_todo \ {asset}
             /\ UNCHANGED <<fs, data, d_fetched, d_pc, d_exc>>
         ELSE \E out \in FetchOutcomes :
             LET fd == WriteFile([fs |-> fs, data |-> data], dest,
                                 IF out = "ok" THEN asset ELSE <<"partial">>)
             IN /\ d_fetched' = d_fetched \cup {asset}
                /\ IF out = "error" THEN UNCHANGED <<fs, data>>
                   ELSE fs' = fd.fs /\ data' = fd.data
                /\ IF out = "ok"
                   THEN d_todo' = d_todo \ {asset} /\ UNCHANGED <<d_pc, d_exc>>
                   ELSE d_pc' = "raised" /\ d_exc' = "URLError" /\ UNCHANGED d_todo
    /\ UNCHANGED <<d_release, d_ret, d_run, d_prev>>
    /\ DlFrame

\* The loop is over: the tag and the assets are returned.
DlReturn ==
    /\ d_pc = "loop"
    /\ d_todo = {}
    /\ d_pc' = "returned"
    /\ UNCHANGED <<fs, data, d_release, d_todo, d_fetched, d_ret, d_exc, d_run,
                   d_prev>>
    /\ DlFrame

DNext == DlCall \/ DlFetch \/ DlReturn

SpecDownload == DInit /\ [][DNext]_vars

----------------------------------------------------------------------------
(* Two runs of group_debs at once over the same deb_dir and apt_dir, one    *)
(* call of the filesystem a step.                                          *)

\* Most `*.deb` files in the source directory of the concurrent runs.
MaxRaceDebs == 2

Procs == {1, 2}

\* The files the concurrent runs are drawn from: two of one group, and one
\* of a group with a distribution.
RaceIds == {1, 2, 3}

\* The locals of a run: its position, the globbed paths yet to be visited,
\* the path and the group directory at hand, the index of the component of
\* that directory os.makedirs is at, the set being built, the exception.
RunIdle ==
    [pc |-> "idle", todo |-> {}, deb |-> <<>>, dir |-> <<>>, k |-> 0,
     dirs |-> {}, exc |-> "none"]

AtWork(run) == run.pc \in {"next", "mkdir", "check", "link"}

CInit ==
    /\ ResolverOff
    /\ MainOff
    /\ PubOff
    /\ DlOff
    /\ QuoteOff
    /\ GroupVarsOff
    /\ apt_dir = AptDir
    /\ \E ids \in SUBSET RaceIds :
         /\ Cardinality(ids) <= MaxRaceDebs
         /\ fs = SourceFs(ids)
    /\ data = [i \in {fs[q].ino : q \in DOMAIN fs} \ {0} |-> InitialContent(i)]
    /\ fs0 = fs
    /\ c_proc = [p \in Procs |-> RunIdle]
    /\ c_overlap = FALSE

\* What the steps of the concurrent runs leave alone.
RaceFrame ==
    /\ UNCHANGED <<data, fs0, apt_dir, g_pc, g_todo, dist_arch_dirs, g_exc,
                   g_run, g_prev>>
    /\ UNCHANGED rvars
    /\ UNCHANGED mvars
    /\ UNCHANGED pvars
    /\ UNCHANGED dvars
    /\ UNCHANGED qvars

\* A step of process p: the history notes whether the other is at work.
Stepped(p) ==
    c_overlap' = (c_overlap \/ \E q \in Procs \ {p} : AtWork(c_proc[q]))

\* The entry of group_debs: the glob is evaluated.
RaceEnter(p) ==
    /\ c_proc[p].pc = "idle"
    /\ c_proc' = [c_proc EXCEPT ![p].pc = "next",
                                ![p].todo = glob_debs(fs, DebDir)]
    /\ Stepped(p)
    /\ UNCHANGED fs
    /\ RaceFrame

\* The next path of the glob: its key is resolved (DebPackage reads the
\* file) and os.makedirs of its group directory begins.
RaceResolve(p) ==
    /\ c_proc[p].pc = "next"
    /\ \E deb \in c_proc[p].todo :
         LET r == get_deb_dist_arch(DebAt(fs, deb)) IN
         c_proc' = IF r.exc # "none"
                   THEN [c_proc EXCEPT ![p].pc = "raised", ![p].exc = r.exc]
                   ELSE [c_proc EXCEPT ![p].pc = "mkdir",
                                       ![p].deb = deb,
                                       ![p].dir = DistArchDir(apt_dir, r.dist, r.arch),
                                       ![p].k = 1]
    /\ Stepped(p)
    /\ UNCHANGED fs
    /\ RaceFrame

\* os.makedirs, one directory a step: a directory on the way that is there
\* is passed over, a missing one is made by mkdir; errno 17 for the last
\* one is the error group_debs ignores; a file on the way is errno 20.
RaceMkdir(p) ==
    /\ c_proc[p].pc = "mkdir"
    /\ LET run == c_proc[p]
           t == Norm(Prefix(run.dir, run.k))
           last == run.k = Len(run.dir)
           on == IF last
                 THEN [c_proc EXCEPT ![p].pc = "check",
                                     ![p].dirs = run.dirs \cup {run.dir}]
                 ELSE [c_proc EXCEPT ![p].k = run.k + 1]
       IN IF t \notin DOMAIN fs THEN
              /\ fs' = fs @@ (t :> DirEntry)
              /\ c_proc' = on
          ELSE IF last \/ fs[t].kind = "dir" THEN
              /\ c_proc' = on
              /\ UNCHANGED fs
          ELSE
              /\ c_proc' = [c_proc EXCEPT ![p].pc = "raised",
                                          ![p].exc = "NotADirectoryError"]
              /\ UNCHANGED fs
    /\ Stepped(p)
    /\ RaceFrame

\* `if not os.path.exists(deb_link)`.
RaceCheck(p) ==
    /\ c_proc[p].pc = "check"
    /\ LET run == c_proc[p]
           deb_link == run.dir \o <<run.deb[Len(run.deb)]>>
       IN c_proc' = IF PathExists(fs, deb_link)
                    THEN [c_proc EXCEPT ![p].pc = "next",
                                        ![p].todo = run.todo \ {run.deb}]
                    ELSE [c_proc EXCEPT ![p].pc = "link"]
    /\ Stepped(p)
    /\ UNCHANGED fs
    /\ RaceFrame

\* os.link(deb, deb_link).
RaceLink(p) ==
    /\ c_proc[p].pc = "link"
    /\ LET run == c_proc[p]
           ln == link(fs, run.deb, run.dir \o <<run.deb[Len(run.deb)]>>)
       IN /\ fs' = ln.fs
          /\ c_proc' = IF ln.errno = 0
                       THEN [c_proc EXCEPT ![p].pc = "next",
                                           ![p].todo = run.todo \ {run.deb}]
                       ELSE [c_proc EXCEPT ![p].pc = "raised",
                                           ![p].exc = IF ln.errno = EEXIST
                                                      THEN "FileExistsError"
                                                      ELSE "NotADirectoryError"]
    /\ Stepped(p)
    /\ RaceFrame

\* The end of group_debs.
RaceReturn(p) ==
    /\ c_proc[p].pc = "next"
    /\ c_proc[p].todo = {}
    /\ c_proc' = IF c_proc[p].dirs = {}
                 THEN [c_proc EXCEPT ![p].pc = "raised", ![p].exc = "ValueError"]
                 ELSE [c_proc EXCEPT ![p].pc = "returned"]
    /\ Stepped(p)
    /\ UNCHANGED fs
    /\ RaceFrame

CNext ==
    \E p \in Procs :
        \/ RaceEnter(p)
        \/ RaceResolve(p)
        \/ RaceMkdir(p)
        \/ RaceCheck(p)
        \/ RaceLink(p)
        \/ RaceReturn(p)

SpecRace == CInit /\ [][CNext]_vars

----------------------------------------------------------------------------
(* quote_dotted of utils.py on its own, a turn of its loop a step.         *)

\* The longest string quote_dotted is called with.
MaxQuoteLen == 4

\* The characters of the strings: a letter, a safe punctuation mark, the
\* dot, and a character that is not URL-safe.
QuoteChars == {"a", "-", ".", "@"}

\* The always-safe characters among them.
AlwaysSafe == {"a", "-", "."}

\* `char in _ALWAYS_SAFE`.  Under Python 2, _ALWAYS_SAFE is the frozenset of
\* the characters of urllib.always_safe; under Python 3 it is
\* urllib.parse._ALWAYS_SAFE, a frozenset made of a bytes object, whose
\* members are integers: no one-character string is in it.
IsSafe(py, char) == py = "py2" /\ char \in AlwaysSafe

\* ''.join([(char if char in _ALWAYS_SAFE else '.') for char in orig]).
Dotted(py, orig) ==
    [i \in 1..Len(orig) |-> IF IsSafe(py, orig[i]) THEN orig[i] ELSE "."]

\* The number of dots s starts with, and ends with.
RECURSIVE LeadingDots(_)
LeadingDots(s) ==
    IF s # <<>> /\ Head(s) = "." THEN 1 + LeadingDots(Tail(s)) ELSE 0

RECURSIVE TrailingDots(_)
TrailingDots(s) ==
    IF s # <<>> /\ s[Len(s)] = "."
    THEN 1 + TrailingDots(SubSeq(s, 1, Len(s) - 1)) ELSE 0

\* A faulty variant of Strip: only the leading dots are removed.
Strip_left(s) == SubSeq(s, LeadingDots(s) + 1, Len(s))

\* s.strip('.').
Strip(s) ==
    IF LeadingDots(s) = Len(s) THEN <<>>
    ELSE SubSeq(s, LeadingDots(s) + 1, Len(s) - TrailingDots(s))

\* s.replace('..', '.'): the occurrences of '..' found from the left, not
\* overlapping, each replaced by one dot.
RECURSIVE Replace(_)
Replace(s) ==
    IF Len(s) < 2 THEN s
    ELSE IF s[1] = "." /\ s[2] = "." THEN <<".">> \o Replace(SubSeq(s, 3, Len(s)))
    ELSE <<s[1]>> \o Replace(Tail(s))

QInit ==
    /\ ResolverOff
    /\ GroupOff
    /\ MainOff
    /\ PubOff
    /\ DlOff
    /\ RaceOff
    /\ q_pc = "call"
    /\ q_py \in {"py2", "py3"}
    /\ q_orig \in {<<>>} \cup SeqsUpTo(QuoteChars, MaxQuoteLen)
    /\ q_dotted = <<>>
    /\ q_result = <<>>
    /\ q_iter = 0
    /\ q_first = None

\* What the steps of quote_dotted leave alone.
QuoteFrame ==
    /\ UNCHANGED q_py
    /\ UNCHANGED rvars
    /\ UNCHANGED gvars
    /\ UNCHANGED mvars
    /\ UNCHANGED pvars
    /\ UNCHANGED dvars
    /\ UNCHANGED cvars

\* The call up to the while loop.
QuoteCall ==
    /\ q_pc = "call"
    /\ q_dotted' = Dotted(q_py, q_orig)
    /\ q_result' = Replace(Strip(q_dotted'))
    /\ q_iter' = 0
    /\ q_pc' = "while"
    /\ UNCHANGED <<q_orig, q_first>>
    /\ QuoteFrame

\* A turn of `while result != dotted`.
QuoteLoop ==
    /\ q_pc = "while"
    /\ q_result # q_dotted
    /\ q_dotted' = q_result
    /\ q_result' = Replace(q_dotted')
    /\ q_iter' = q_iter + 1
    /\ UNCHANGED <<q_pc, q_orig, q_first>>
    /\ QuoteFrame

\* `return result`.
QuoteReturn ==
    /\ q_pc = "while"
    /\ q_result = q_dotted
    /\ q_pc' = "returned"
    /\ UNCHANGED <<q_orig, q_dotted, q_result, q_iter, q_first>>
    /\ QuoteFrame

\* quote_dotted is called with what the first call returned.
QuoteAgain ==
    /\ q_pc = "returned"
    /\ q_first = None
    /\ q_first' = q_result
    /\ q_orig' = q_result
    /\ q_iter' = 0
    /\ q_pc' = "call"
    /\ UNCHANGED <<q_dotted, q_result>>
    /\ QuoteFrame

QNext == QuoteCall \/ QuoteLoop \/ QuoteReturn \/ QuoteAgain

\* A call that has begun goes on to its next step.
SpecQuote == QInit /\ [][QNext]_vars /\ WF_vars(QNext)

----------------------------------------------------------------------------
(* Claims about group_debs (checked under SpecGroup).                      *)

\* The source files of the run and the key the resolver gives each.
Sources == glob_debs(fs, DebDir)
KeyOf(p) == get_deb_dist_arch(DebAt(fs, p))
SameKey(p, q) == KeyOf(p).dist = KeyOf(q).dist /\ KeyOf(p).arch = KeyOf(q).arch
BaseName(p) == p[Len(p)]

\* The directories, other than the source directory, that hold an entry
\* under the base name of source file p.
HomeDirs(p) ==
    {d \in DOMAIN fs : /\ fs[d].kind = "dir"
                       /\ d # Norm(DebDir)
                       /\ Append(d, BaseName(p)) \in DOMAIN fs}

\* C1: after group_debs, two source files with the same (distribution,
\* architecture) pair are in the same group directory, and two files that
\* differ in distribution or architecture are in different directories.
C1_Partition ==
    g_pc = "returned" =>
        \A p \in Sources, q \in Sources :
            IF SameKey(p, q) THEN HomeDirs(p) = HomeDirs(q)
            ELSE HomeDirs(p) \cap HomeDirs(q) = {}

\* C2: a call of group_debs that follows a successful call over the same
\* directories changes nothing in the filesystem, raises nothing, and
\* returns the set the call before it returned.
C2_Idempotent ==
    [][(g_pc = "loop" /\ g_prev.pc = "returned") =>
          /\ fs' = fs
          /\ g_pc' # "raised"
          /\ (g_pc' = "returned" => dist_arch_dirs' = g_prev.dirs)]_vars

\* A second call has returned, after a first that built two groups or more
\* with links of its own.
C2_Witness ==
    /\ g_run = 2
    /\ g_pc = "returned"
    /\ g_prev.pc = "returned"
    /\ Cardinality(dist_arch_dirs) >= 2
    /\ fs # fs0

Finished == g_pc \in {"returned", "raised"}

\* No source file at all, or none that DebPackage can read.
NoneReadable == \A p \in Sources : ~DebAt(fs, p).readable

C8_Frame ==
    \A p \in DOMAIN fs0 :
        /\ p \in DOMAIN fs
        /\ fs[p] = fs0[p]
        /\ fs[p].kind = "file" => data[fs[p].ino] = InitialContent(fs[p].ino)

\* A run has returned that met another file under the name of a source file
\* in a group directory, left it alone and linked the other source files.
C8_Witness ==
    /\ g_pc = "returned"
    /\ \E p \in Sources :
        /\ HomeDirs(p) # {}
        /\ \A d \in HomeDirs(p) : fs[Append(d, BaseName(p))].ino = StaleIno
    /\ \E q \in DOMAIN fs \ DOMAIN fs0 : fs[q].kind = "file"

\* The directory the claim gives a key.
ClaimedDir(p) ==
    IF KeyOf(p).dist = None THEN apt_dir \o <<KeyOf(p).arch>>
    ELSE apt_dir \o <<KeyOf(p).dist>> \o <<KeyOf(p).arch>>

HasSource(i) == DebDir \o <<Catalogue[i].base \o DotDeb>> \in Sources

\* C9: when group_debs returns, the returned set is exactly the set of
\* directories apt_root/arch or apt_root/dist/arch over the keys of the
\* source files, each exists, and each source file has an entry under its
\* base name in the directory of its key; a_1_x.deb and b_1_x.deb are in
\* apt_root/x and a-f_1_x.deb is in apt_root/f/x.
C9_Returned ==
    g_pc = "returned" =>
        /\ dist_arch_dirs = {ClaimedDir(p) : p \in Sources}
        /\ \A d \in dist_arch_dirs : IsDir(fs, d)
        /\ \A p \in Sources : PathExists(fs, ClaimedDir(p) \o <<BaseName(p)>>)
        /\ \A i \in {1, 2} : HasSource(i) =>
              /\ apt_dir \o <<ArchX>> \in dist_arch_dirs
              /\ PathExists(fs, apt_dir \o <<ArchX, Catalogue[i].base \o DotDeb>>)
        /\ HasSource(3) =>
              /\ apt_dir \o <<DistF, ArchX>> \in dist_arch_dirs
              /\ PathExists(fs, apt_dir \o <<DistF, ArchX, Catalogue[3].base \o DotDeb>>)

\* The three files of the example have been grouped.
C9_Witness ==
    /\ g_pc = "returned"
    /\ HasSource(1) /\ HasSource(2) /\ HasSource(3)
    /\ dist_arch_dirs = {apt_dir \o <<ArchX>>, apt_dir \o <<DistF, ArchX>>}

\* C18: within one run, for one tag prefix, the release tag that
\* release_apt_repo computes is different for any two different group
\* directories that group_debs returned, so no two groups are published to
\* the same release.
C18_DistinctTags ==
    g_pc = "returned" =>
        \A tag_prefix \in TagPrefixes :
            \A d \in dist_arch_dirs, e \in dist_arch_dirs :
                Norm(d) # Norm(e) =>
                    ReleaseTagWith(tag_prefix, d, apt_dir) #
                        ReleaseTagWith(tag_prefix, e, apt_dir)

\* C19: every group directory that group_debs returned lies strictly below
\* the apt-root, and no returned group directory is the same directory as,
\* or an ancestor of, another returned one, so the files of one group are
\* never inside the tree indexed and uploaded for another.
C19_Disjoint ==
    g_pc = "returned" =>
        /\ \A d \in dist_arch_dirs :
              /\ IsUnder(Norm(d), Norm(apt_dir))
              /\ Norm(d) # Norm(apt_dir)
        /\ \A d \in dist_arch_dirs, e \in dist_arch_dirs :
              d # e => ~IsUnder(Norm(e), Norm(d))

----------------------------------------------------------------------------
(* Claims about main (checked under Spec).                                 *)

\* C10: if the signer returns no fingerprint for the InRelease or for the
\* Release.gpg signature of a group directory, the run ends with an error,
\* no release is got or created and no asset is uploaded; and every
\* directory that is published has both signatures.
C10_NoUnsignedPublish ==
    /\ m_signfail # {} =>
          /\ m_pc \in {"finally", "done"}
          /\ m_exc = "ValueError"
          /\ m_released = {}
          /\ releases = releases0
    /\ \A d \in m_released : d \in m_signed

\* A publishing run has ended on a signing failure, after another group
\* directory was built and signed.
C10_Witness ==
    /\ m_pc = "done"
    /\ m_cfg.publish
    /\ m_signfail # {}
    /\ m_signed # {}
    /\ m_exc = "ValueError"
    /\ m_released = {}

\* The directories of the run, and those at the indices before k of the
\* iteration order.
AllDirs == {m_order[j] : j \in 1..Len(m_order)}
DirsBefore(k) == {m_order[j] : j \in {n \in 1..Len(m_order) : n < k}}

\* C11 as stated: for each group directory, its metadata build, its signing
\* and its publishing all complete before the metadata build of the next
\* group directory begins: in a publishing run there is never more than one
\* directory that is built and not yet published.
C11_Original ==
    m_cfg.publish => Cardinality(m_made \ m_released) <= 1

\* C11, amended: the pipeline makes two passes over the group directories,
\* each one directory at a time.  The build and the signing of a directory
\* complete before the build of the next begins; the publishing of any
\* directory begins only after every directory is built and signed; and the
\* publishing of a directory completes before that of the next begins.
C11_Amended ==
    /\ m_pc = "make" => (m_made = DirsBefore(m_i) /\ m_released = {})
    /\ m_cfg.sign => m_signed = m_made
    /\ m_pc = "release" => m_released = DirsBefore(m_i)
    /\ m_released # {} => (m_made = AllDirs /\ m_signed = AllDirs)

\* The first of two group directories is published and the second, built
\* and signed before that, is yet to be.
C11_Witness ==
    /\ m_pc = "release"
    /\ Len(m_order) = 2
    /\ m_i = 2
    /\ m_released = {m_order[1]}
    /\ m_order[2] \in m_signed \ m_released

\* The entries of the filesystem that are deb_dir or below it.
InDebDir == {q \in DOMAIN fs : Len(q) >= 1 /\ q[1] = DebDirName}

\* C14: when main made deb_dir itself, deb_dir is there from its making to
\* the finally block, and it is gone with all below it when main ends,
\* however main ends; when deb_dir was given, no step of main removes an
\* entry of the filesystem.
C14_CleanUp ==
    /\ [](m_cfg.tmp =>
            /\ m_pc \notin {"off", "start", "done"} => IsDir(fs, DebDir)
            /\ m_pc = "done" => InDebDir = {})
    /\ [][~m_cfg.tmp => \A q \in DOMAIN fs : q \in DOMAIN fs']_vars

\* A run that made deb_dir itself, with the apt-root in it, has ended on an
\* error after it built a group directory, and deb_dir is gone.
C14_Witness ==
    /\ m_pc = "done"
    /\ m_cfg.tmp
    /\ apt_dir = DebDir
    /\ m_exc # "none"
    /\ m_made # {}
    /\ InDebDir = {}

----------------------------------------------------------------------------
(* Claims about release_apt_repo (checked under SpecPublish).              *)

PubTag == ReleaseTagWith(p_prefix, p_dir, apt_dir)

\* The names in the group directory, and the assets of the release at the
\* tag before the call.
PubListed == listdir(fs, p_dir)
OldAssets == IF PubTag \in DOMAIN releases0 THEN releases0[PubTag] ELSE <<>>

PubContent(n) == data[fs[Norm(p_dir \o <<n>>)].ino]

\* C12: publishing a group directory creates the release at the tag if
\* there is none and reuses it otherwise, and touches no other release; the
\* asset of a name is gone when the file of that name is uploaded; assets
\* whose names are not in the directory are kept; no upload is refused, and
\* when release_apt_repo returns the release holds, for each file of the
\* directory, one asset with that file's content.
C12_Publish ==
    /\ p_pc \in {"loop", "upload", "returned", "raised"} =>
          /\ DOMAIN releases = DOMAIN releases0 \cup {PubTag}
          /\ p_created <=> PubTag \notin DOMAIN releases0
          /\ \A t \in DOMAIN releases0 \ {PubTag} : releases[t] = releases0[t]
          /\ \A n \in DOMAIN OldAssets \ PubListed :
                n \in DOMAIN releases[PubTag] /\ releases[PubTag][n] = OldAssets[n]
    /\ p_pc = "upload" => p_name \notin DOMAIN releases[PubTag]
    /\ p_exc # "UnprocessableEntity"
    /\ p_pc = "returned" =>
          /\ DOMAIN releases[PubTag] = PubListed \cup DOMAIN OldAssets
          /\ \A n \in PubListed : releases[PubTag][n] = PubContent(n)

\* A directory has been published to a release that was there, with an
\* asset replaced by the file of its name and another asset kept.
C12_Witness ==
    /\ p_pc = "returned"
    /\ ~p_created
    /\ \E n \in DOMAIN OldAssets \cap PubListed :
         releases[PubTag][n] # OldAssets[n]
    /\ DOMAIN OldAssets \ PubListed # {}
    /\ Cardinality(PubListed) >= 4

----------------------------------------------------------------------------
(* Claims about download_release_debs (checked under SpecDownload).        *)

\* The name has the extension ".deb": it ends in ".deb", after at least one
\* character that is no dot.
HasDebExtension(n) ==
    /\ EndsWith(n, DotDeb)
    /\ \E i \in 1..(Len(n) - Len(DotDeb)) : n[i] # "."

\* C13: a download fetches only assets of the selected release whose
\* extension is .deb, and fetches an asset only when deb_dir holds no file
\* of its name; no entry of deb_dir is ever overwritten or removed; and a
\* download that follows a download that returned fetches nothing.
C13_Download ==
    /\ [](/\ \A a \in d_fetched :
               /\ HasDebExtension(a)
               /\ d_release # 0 /\ a \in d_repo[d_release].assets
          /\ d_prev = "returned" => (d_fetched = {} /\ d_pc # "raised"))
    /\ [][/\ \A a \in d_fetched' \ d_fetched :
                DebDir \o <<a>> \notin DOMAIN fs
          /\ \A q \in DOMAIN fs :
                /\ q \in DOMAIN fs'
                /\ fs'[q] = fs[q]
                /\ fs[q].kind = "file" => data'[fs[q].ino] = data[fs[q].ino]]_vars

\* A second download has returned without a fetch, after a first that
\* fetched one package and left alone the local file named as the other.
C13_Witness ==
    /\ d_run = 2
    /\ d_pc = "returned"
    /\ d_prev = "returned"
    /\ d_fetched = {}
    /\ d_ret.assets = {ADebName, BDebName}
    /\ DebDir \o <<ADebName>> \in DOMAIN fs0
    /\ data[fs[DebDir \o <<ADebName>>].ino] = <<"stale">>
    /\ DebDir \o <<BDebName>> \in DOMAIN fs \ DOMAIN fs0

\* The release at index i of the listing holds a package.
HasDebs(i) == \E a \in d_repo[i].assets : HasDebExtension(a)

TaggedAs(tag) == {i \in 1..Len(d_repo) : d_repo[i].tag_name = tag}

WithDebs == {i \in 1..Len(d_repo) : HasDebs(i)}

\* C16: with a tag the release at that tag is selected; with prerelease and
\* no tag, the first release of the listing that holds a .deb asset, and its
\* tag name is returned; otherwise the latest release.  When the selected
\* release, or with prerelease every listed release, holds no .deb asset,
\* an error is raised and nothing has been fetched or written.
C16_Selection ==
    d_pc \in {"loop", "returned", "raised"} =>
        /\ IF d_args.tag # None THEN
               IF TaggedAs(d_args.tag) # {}
               THEN d_release \in TaggedAs(d_args.tag)
               ELSE d_pc = "raised"
           ELSE IF d_args.prerelease THEN
               IF WithDebs # {}
               THEN /\ d_release \in WithDebs
                    /\ \A j \in WithDebs : d_release <= j
                    /\ d_ret.tag = d_repo[d_release].tag_name
                    /\ d_exc \in {"none", "URLError"}
               ELSE d_pc = "raised"
           ELSE IF d_latest # 0 THEN d_release = d_latest
           ELSE d_pc = "raised"
        /\ (d_release = 0 \/ ~HasDebs(d_release)) =>
               /\ d_pc = "raised"
               /\ d_exc \in {"ValueError", "NotFoundError", "UnboundLocalError"}
               /\ d_fetched = {}
               /\ fs = fs0
               /\ data = [i \in DOMAIN data |-> <<"stale">>]

\* With prerelease and no tag, the second release of the listing has been
\* downloaded from, the first one holding no package.
C16_Witness ==
    /\ d_pc = "returned"
    /\ d_args = [tag |-> None, prerelease |-> TRUE]
    /\ d_release = 2
    /\ d_repo[1].assets # {}
    /\ d_ret.tag = TagName(2)
    /\ d_fetched # {}

----------------------------------------------------------------------------
(* Claims about concurrent runs of group_debs (checked under SpecRace).    *)

\* The link the run was to make for the path at hand.
LinkAtHand(run) == Norm(run.dir \o <<run.deb[Len(run.deb)]>>)

\* C15: runs of group_debs one after the other are safe and concurrent runs
\* are not.  While no step of a run fell between the steps of the other, no
\* run fails but on an empty source directory; a run fails on os.link only
\* when the runs overlapped, and then the link it was to make is there, made
\* by the other run after this run tested for it; a run that returns leaves
\* every source file linked into its group directory.
C15_Race ==
    \A p \in Procs :
        LET run == c_proc[p] IN
        /\ (run.pc = "raised" /\ ~c_overlap) =>
               (run.exc = "ValueError" /\ glob_debs(fs, DebDir) = {})
        /\ run.pc = "raised" => run.exc \in {"ValueError", "FileExistsError"}
        /\ run.exc = "FileExistsError" =>
               /\ c_overlap
               /\ LinkAtHand(run) \in DOMAIN fs \ DOMAIN fs0
               /\ fs[LinkAtHand(run)] = fs[Norm(run.deb)]
        /\ run.pc = "returned" =>
               \A deb \in glob_debs(fs, DebDir) :
                   LET r == get_deb_dist_arch(DebAt(fs, deb)) IN
                   /\ DistArchDir(apt_dir, r.dist, r.arch) \in run.dirs
                   /\ PathExists(fs, DistArchDir(apt_dir, r.dist, r.arch)
                                         \o <<deb[Len(deb)]>>)

\* A run has failed on os.link, the link having been made by the other run,
\* which returned.
C15_Witness ==
    \E p \in Procs, q \in Procs :
        /\ c_proc[p].pc = "raised"
        /\ c_proc[p].exc = "FileExistsError"
        /\ c_proc[q].pc = "returned"

----------------------------------------------------------------------------
(* Claims about quote_dotted (checked under SpecQuote).                    *)

\* C17: quote_dotted terminates for every input string, within as many
\* turns of its loop as the string is long; the string it returns holds
\* always-safe characters only, no two dots one after the other and no dot
\* first or last; and quote_dotted of what it returned returns the same.
C17_QuoteDotted ==
    /\ [](/\ q_iter <= Len(q_orig)
          /\ q_pc = "returned" =>
               /\ \A i \in 1..Len(q_result) : q_result[i] \in AlwaysSafe
               /\ \A i \in 1..(Len(q_result) - 1) :
                      ~(q_result[i] = "." /\ q_result[i + 1] = ".")
               /\ q_result # <<>> =>
                      (q_result[1] # "." /\ q_result[Len(q_result)] # ".")
               /\ q_first # None => q_result = q_first)
    /\ <>(q_pc = "returned" /\ q_first # None)

\* Under Python 2, the second call has returned what the first returned for
\* a string with a leading unsafe character and a run of dots inside: a
\* string with a dot inside.
C17_Witness ==
    /\ q_pc = "returned"
    /\ q_py = "py2"
    /\ q_first # None
    /\ q_result = <<"a", ".", "a">>
    /\ q_iter = 0

----------------------------------------------------------------------------
(* The resolver on its own: every input of a bounded family, one call.     *)

ValidField(f) ==
    /\ f[1] \in AlnumChars
    /\ \A i \in 1..(Len(f) - 1) : ~(f[i] = "+" /\ f[i + 1] = "+")

\* Package names and versions: start with an alphanumeric, no `++`.
Fields == {f \in SeqsUpTo(FieldChars, MaxFieldLen) : ValidField(f)}

\* Architectures are alphanumeric.
Arches == {<<"a">>, <<"1", "a">>}

\* Distribution suffixes put between the package name and the version.
Suffixes == {<<"a">>, <<"a", "-", "a">>, <<"a", ".", "1">>, <<".">>}

\* Characters a base name is perturbed with.
MutChars == {"a", "1"}

PlainBase(p, v, a) == Concat(<<p, <<"_">>, v, <<"_">>, a>>)

SuffixedBase(p, sep, suf, v, a) ==
    Concat(<<p, <<sep>>, suf, <<"_">>, v, <<"_">>, a>>)

\* The base names tried for one triple: the conventional names, and each of
\* them with one character replaced or one character appended.
Mutations(s) ==
    {s} \cup {[s EXCEPT ![i] = c] : i \in 1..Len(s), c \in MutChars}
        \cup {Append(s, c) : c \in MutChars}

BaseNames(p, v, a) ==
    UNION {Mutations(s) :
           s \in {PlainBase(p, v, a)} \cup
                 {SuffixedBase(p, sep, suf, v, a) : sep \in SepChars, suf \in Suffixes}}

Deb(base, p, v, a) ==
    [name |-> base \o DotDeb, package |-> p, version |-> v, arch |-> a,
     readable |-> TRUE]

\* A file DebPackage cannot read: there are no control fields to speak of.
Unreadable(base) ==
    [name |-> base \o DotDeb, package |-> <<>>, version |-> <<>>, arch |-> <<>>,
     readable |-> FALSE]

RInit ==
    /\ r_pc = "call"
    /\ r_out = Raised("pending")
    /\ GroupOff
    /\ MainOff
    /\ XOff
    /\ \E p \in Fields, v \in Fields, a \in Arches :
         \/ \E base \in BaseNames(p, v, a) : r_deb = Deb(base, p, v, a)
         \/ r_deb = Unreadable(PlainBase(p, v, a))

\* The call of get_deb_dist_arch on the drawn file.
Resolve ==
    /\ r_pc = "call"
    /\ r_out' = get_deb_dist_arch(r_deb)
    /\ r_pc' = "ret"
    /\ UNCHANGED r_deb
    /\ UNCHANGED gvars
    /\ UNCHANGED mvars
    /\ UNCHANGED xvars

RNext == Resolve

SpecResolver == RInit /\ [][RNext]_vars

----------------------------------------------------------------------------
(* Claims about the resolver (checked under SpecResolver).                 *)

\* The instantiated pattern matches the file's base name.
PatternMatches(deb) ==
    ReMatch(deb.package, deb.version, deb.arch, SplitExtRoot(deb.name))[1]

Resolved == r_pc = "ret" /\ r_deb.readable

NoUnderscore(s) == \A i \in 1..Len(s) : s[i] # "_"

\* C4: for every triple and every non-empty SUFFIX without '_', the resolver
\* applied to package-SUFFIX_version_arch returns distribution = SUFFIX.
C4_SuffixIsDist ==
    \A suf \in Suffixes :
        (/\ Resolved
         /\ NoUnderscore(suf)
         /\ r_deb.name = SuffixedBase(r_deb.package, "-", suf, r_deb.version,
                                      r_deb.arch) \o DotDeb)
        => r_out = Returned(suf, r_deb.arch)

StartsWithAt(s, t, i) ==
    /\ i + Len(t) - 1 <= Len(s)
    /\ SubSeq(s, i, i + Len(t) - 1) = t

LiteralResolver(deb) ==
    LET s == SplitExtRoot(deb.name)
        e == Len(deb.package) + 1
        tl == Concat(<<<<"_">>, deb.version, <<"_">>, deb.arch>>)
        ds == IF StartsWithAt(s, deb.package, 1) /\ e <= Len(s) /\ s[e] \in SepChars
              THEN {d \in 1..(Len(s) - e) : StartsWithAt(s, tl, e + 1 + d)}
              ELSE {}
    IN IF ds # {}
       THEN Returned(SubSeq(s, e + 1, e + (CHOOSE x \in ds : \A y \in ds : y <= x)),
                     deb.arch)
       ELSE Returned(None, deb.arch)

\* C6: the resolver treats package, version and architecture as literal
\* text: it gives the same result as the reference resolver that compares
\* the three fields literally, for every base name and every triple.
C6_LiteralFields == Resolved => r_out = LiteralResolver(r_deb)

=============================================================================
